---- MODULE Spec2Model ----
(***************************************************************************)
(* The OAuth 2.0 authorization-code + PKCE handshake of the auth router:   *)
(* GET /auth/login, GET /auth/callback, the browser's cookie jar that      *)
(* carries the state token and the code verifier between the two requests, *)
(* the provider's token and identity endpoints, and the User collection.   *)
(*                                                                         *)
(* One browser talks to the server.  A callback handler runs its           *)
(* synchronous prefix (the validations and the issue of the token POST)    *)
(* in one step, and is then suspended at each await: the token response,   *)
(* the identity response and the database's findOneAndUpdate.  Several     *)
(* handlers can be suspended at once.                                      *)
(***************************************************************************)
EXTENDS Integers, Sequences, FiniteSets, TLC

\* ---------------------------------------------------------------- bounds
MaxReq == 2        \* callbacks that pass the validations and call the provider
MaxLogins == 2     \* GET /auth/login requests (one fresh state/verifier each)
MaxTicks == 1      \* clock steps, each of one cookie lifetime

\* ------------------------------------------------------ program constants
MaxAge == 5 * 60 * 1000

AIRTABLE_AUTH_URL == "https://airtable.com/oauth2/v1/authorize"
AIRTABLE_TOKEN_URL == "https://airtable.com/oauth2/v1/token"
AIRTABLE_WHOAMI_URL == "https://api.airtable.com/v0/meta/whoami"
SCOPES == "data.records:read data.records:write schema.bases:read webhook:manage"
ClientUrl == "http://localhost:5173"

\* ------------------------------------------------------------- JS values
\* A value of a query parameter or of a cookie: undefined, a string, or an
\* object (qs parses a repeated or bracketed parameter into an array).
Undefined == [t |-> "undefined", v |-> ""]
Str(s) == [t |-> "string", v |-> s]
Arr(s) == [t |-> "object", v |-> s]

\* JS truthiness: undefined and "" are falsy, every object is truthy.
Truthy(x) == x.t = "object" \/ (x.t = "string" /\ x.v # "")

\* JS ===: same type and same value; two distinct objects are never ===.
StrictEq(a, b) == a.t = b.t /\ a.t # "object" /\ a.v = b.v

TypeofString(x) == x.t = "string"

\* a || b
OrElse(a, b) == IF Truthy(a) THEN a ELSE b

\* ------------------------------------------------------ secret generator
\* randomBytes never repeats a value: the n-th login draws the n-th token.
generateRandomString(n) == "s" \o ToString(n)
generateCodeVerifier(n) == "v" \o ToString(n)
\* SHA-256 and base64url are injective on the verifiers in play; the
\* challenge is a string that determines the verifier and differs from it.
base64UrlEncode(digest) == "b64url(" \o digest \o ")"
\* The challenge of the "plain" method: the verifier itself.
generateCodeChallenge_Plain(verifier) == verifier
generateCodeChallenge(verifier) == base64UrlEncode("sha256(" \o verifier \o ")")

\* -------------------------------------------------------------- provider
\* The token endpoint issues one of these grants; the identity endpoint answers
\* with the id of the account that signed in.
Grants == { [access_token |-> "AT1", refresh_token |-> "RT1", expires_in |-> 3600],
            [access_token |-> "AT2", refresh_token |-> "RT2", expires_in |-> 7200] }
NoGrant == [access_token |-> "", refresh_token |-> "", expires_in |-> 0]
ProviderIds == {"prov-42", "prov-7"}

\* ----------------------------------------------------------------- state
VARIABLES
  now,       \* Date.now(), in ms
  logins,    \* number of GET /auth/login served
  jar,       \* the browser's cookies: name -> [value, expires] or NoCookie
  slots,     \* the callback handlers: suspended at an await, finished, or idle
  users,     \* the User collection, in insertion order
  last,      \* the HTTP exchange the event loop served in the last step
  consumed,  \* a callback carrying the stored state has read the pending
             \* authorization of the latest login at its state check
  lastExch   \* the handler whose token exchange succeeded most recently, or 0

vars == <<now, logins, jar, slots, users, last, consumed, lastExch>>

Req == 1..MaxReq

NoCookie == [value |-> Undefined, expires |-> 0]
\* A cookie with maxAge of ten minutes.
Cookie_TenMinutes(s, at) == [value |-> Str(s), expires |-> at + 2 * MaxAge]
\* res.cookie(name, s, COOKIE_OPTIONS) at time at: maxAge counts from the response.
Cookie(s, at) == [value |-> Str(s), expires |-> at + MaxAge]
CookieNames == {"airtable_oauth_state", "airtable_code_verifier"}

\* The value the browser sends for a cookie: nothing once maxAge has run out.
Sent(c) == IF c.value.t # "undefined" /\ now < c.expires THEN c.value ELSE Undefined
ReqCookies == [k \in CookieNames |-> Sent(jar[k])]

NoDoc == [airtableId |-> "", accessToken |-> "", refreshToken |-> "",
          tokenExpiresAt |-> 0, lastLogin |-> 0]
NoUser == [_id |-> 0, airtableId |-> "", accessToken |-> "", refreshToken |-> "",
           tokenExpiresAt |-> 0, lastLogin |-> 0]
NoLocation == [url |-> "", token |-> "", userId |-> 0]
NoParams == [grant_type |-> "", code |-> "", redirect_uri |-> "", code_verifier |-> ""]

\* A handler: where it is suspended, the state parameter it was called with,
\* the token request it has in flight, the calls it has made to the provider,
\* the grant and the update document it holds.
Idle == [pc |-> "idle", state |-> "", params |-> NoParams, posts |-> 0, gets |-> 0,
         grant |-> NoGrant, airtableId |-> "", doc |-> NoDoc, status |-> 0]

NoQuery == [code |-> Undefined, state |-> Undefined, error |-> Undefined,
            error_description |-> Undefined]
NoUrl == [url |-> "", client_id |-> "", redirect_uri |-> "", response_type |-> "",
          scope |-> "", state |-> "", code_challenge |-> "",
          code_challenge_method |-> ""]
NoCookies == [k \in CookieNames |-> Undefined]
None == [kind |-> "none", query |-> NoQuery, cookies |-> NoCookies, replay |-> FALSE,
         slot |-> 0, status |-> 0, body |-> Undefined, posts |-> 0, gets |-> 0,
         grant |-> NoGrant, airtableId |-> "", doc |-> NoDoc, user |-> NoUser,
         location |-> NoLocation,
         cleared |-> {}, authUrl |-> NoUrl, setCookie |-> NoCookies]

Init ==
  /\ now = 0
  /\ logins = 0
  /\ jar = [k \in CookieNames |-> NoCookie]
  /\ slots = [r \in Req |-> Idle]
  /\ users = <<>>
  /\ last = None
  /\ consumed = FALSE
  /\ lastExch = 0

\* ------------------------------------------------------- GET /auth/login
AuthUrl(state, codeChallenge) ==
  [url |-> AIRTABLE_AUTH_URL, client_id |-> "client", redirect_uri |-> "redirect",
   response_type |-> "code", scope |-> SCOPES, state |-> state,
   code_challenge |-> codeChallenge, code_challenge_method |-> "S256"]

\* Login with the two cookies set only when the browser sent none.
Login_KeepFirst ==
  /\ last = None
  /\ logins < MaxLogins
  /\ LET state == generateRandomString(logins + 1)
         codeVerifier == generateCodeVerifier(logins + 1)
         codeChallenge == generateCodeChallenge(codeVerifier)
         fresh == ~Truthy(Sent(jar["airtable_oauth_state"]))
     IN /\ jar' = IF fresh
                  THEN [jar EXCEPT !["airtable_oauth_state"] = Cookie(state, now),
                                   !["airtable_code_verifier"] = Cookie(codeVerifier, now)]
                  ELSE jar
        /\ last' = [None EXCEPT !.kind = "login", !.status = 302,
                      !.authUrl = AuthUrl(state, codeChallenge),
                      !.setCookie = IF fresh
                                    THEN [k \in CookieNames |->
                                            IF k = "airtable_oauth_state" THEN Str(state)
                                            ELSE Str(codeVerifier)]
                                    ELSE NoCookies]
  /\ logins' = logins + 1
  /\ consumed' = FALSE
  /\ UNCHANGED <<now, slots, users, lastExch>>

\* Both cookies are set on the response that carries the redirect; the browser
\* stores them, over whatever it held under the two fixed names.
Login ==
  /\ last = None
  /\ logins < MaxLogins
  /\ LET state == generateRandomString(logins + 1)
         codeVerifier == generateCodeVerifier(logins + 1)
         codeChallenge == generateCodeChallenge(codeVerifier)
     IN /\ jar' = [jar EXCEPT !["airtable_oauth_state"] = Cookie(state, now),
                              !["airtable_code_verifier"] = Cookie(codeVerifier, now)]
        /\ last' = [None EXCEPT !.kind = "login", !.status = 302,
                      !.authUrl = AuthUrl(state, codeChallenge),
                      !.setCookie = [k \in CookieNames |->
                                       IF k = "airtable_oauth_state" THEN Str(state)
                                       ELSE Str(codeVerifier)]]
  /\ logins' = logins + 1
  /\ consumed' = FALSE
  /\ UNCHANGED <<now, slots, users, lastExch>>

\* ---------------------------------------------------- GET /auth/callback
StateTokens == {generateRandomString(n) : n \in 1..MaxLogins}
Queries ==
  [code : {Undefined, Str("abc"), Arr("abc")},
   state : {Undefined, Str("")} \cup {Str(s) : s \in StateTokens},
   error : {Undefined, Str(""), Str("access_denied")},
   error_description : {Undefined, Str("denied")}]

\* Validate with the state compared only when a state cookie came with the request.
Validate_StateOnlyIfSaved(q, savedState, codeVerifier) ==
  IF Truthy(q.error) THEN "ProviderDeniedAuthorization"
  ELSE IF Truthy(savedState) /\ (~Truthy(q.state) \/ ~StrictEq(q.state, savedState))
       THEN "StateMismatch"
  ELSE IF ~Truthy(codeVerifier) THEN "MissingProofOfPossession"
  ELSE IF ~TypeofString(q.code) THEN "MalformedCallback"
  ELSE "ok"

\* Validate without the check of the code verifier.
Validate_NoVerifierCheck(q, savedState, codeVerifier) ==
  IF Truthy(q.error) THEN "ProviderDeniedAuthorization"
  ELSE IF ~Truthy(q.state) \/ ~StrictEq(q.state, savedState) THEN "StateMismatch"
  ELSE IF ~TypeofString(q.code) THEN "MalformedCallback"
  ELSE "ok"

\* Validate without the typeof check of the code.
Validate_NoCodeCheck(q, savedState, codeVerifier) ==
  IF Truthy(q.error) THEN "ProviderDeniedAuthorization"
  ELSE IF ~Truthy(q.state) \/ ~StrictEq(q.state, savedState) THEN "StateMismatch"
  ELSE IF ~Truthy(codeVerifier) THEN "MissingProofOfPossession"
  ELSE "ok"

\* Validate with the verifier looked for before the state is compared.
Validate_VerifierFirst(q, savedState, codeVerifier) ==
  IF Truthy(q.error) THEN "ProviderDeniedAuthorization"
  ELSE IF ~Truthy(codeVerifier) THEN "MissingProofOfPossession"
  ELSE IF ~Truthy(q.state) \/ ~StrictEq(q.state, savedState) THEN "StateMismatch"
  ELSE IF ~TypeofString(q.code) THEN "MalformedCallback"
  ELSE "ok"

\* Validate with the typeof check of the code made before the state is compared.
Validate_CodeFirst(q, savedState, codeVerifier) ==
  IF Truthy(q.error) THEN "ProviderDeniedAuthorization"
  ELSE IF ~TypeofString(q.code) THEN "MalformedCallback"
  ELSE IF ~Truthy(q.state) \/ ~StrictEq(q.state, savedState) THEN "StateMismatch"
  ELSE IF ~Truthy(codeVerifier) THEN "MissingProofOfPossession"
  ELSE "ok"

\* The four checks of the handler, in the order the code makes them.
Validate(q, savedState, codeVerifier) ==
  IF Truthy(q.error) THEN "ProviderDeniedAuthorization"
  ELSE IF ~Truthy(q.state) \/ ~StrictEq(q.state, savedState) THEN "StateMismatch"
  ELSE IF ~Truthy(codeVerifier) THEN "MissingProofOfPossession"
  ELSE IF ~TypeofString(q.code) THEN "MalformedCallback"
  ELSE "ok"

RejectStatus(v) == IF v = "StateMismatch" THEN 403 ELSE 400

RejectBody(v, q) ==
  CASE v = "ProviderDeniedAuthorization" ->
         OrElse(q.error_description, Str("Authorization failed"))
    [] v = "StateMismatch" -> Str("Security Error: State mismatch")
    [] v = "MissingProofOfPossession" -> Str("Security Error: Missing code verifier")
    [] OTHER -> Str("Invalid authorization code")

\* req.cookies read at the top of the handler, before the error check.
ReadsStore_Always(v) == TRUE

\* req.cookies is read only once the error check has passed.
ReadsStore(v) == v # "ProviderDeniedAuthorization"
CookiesRead(v, c) == IF ReadsStore(v) THEN c ELSE NoCookies

TokenParams(code, codeVerifier) ==
  [grant_type |-> "authorization_code", code |-> code, redirect_uri |-> "redirect",
   code_verifier |-> codeVerifier]

IdleSlots == {r \in Req : slots[r].pc = "idle"}
FirstIdle == CHOOSE r \in IdleSlots : \A o \in IdleSlots : r <= o

\* Lines 52-92: the validations, then the token POST is issued and the handler
\* is suspended on it.
Callback(q) ==
  LET c == ReqCookies
      v == Validate(q, c["airtable_oauth_state"], c["airtable_code_verifier"])
      read == CookiesRead(v, c)
      seen == [None EXCEPT !.kind = "callback", !.query = q, !.cookies = read,
                           !.replay = consumed]
  IN /\ last = None
     /\ consumed' = (consumed \/ (ReadsStore(v) /\ Truthy(q.state)
                                     /\ StrictEq(q.state, c["airtable_oauth_state"])))
     /\ IF v # "ok"
          THEN /\ last' = [seen EXCEPT !.status = RejectStatus(v),
                                       !.body = RejectBody(v, q)]
               /\ UNCHANGED <<now, logins, jar, slots, users, lastExch>>
          ELSE /\ IdleSlots # {}
               /\ slots' = [slots EXCEPT ![FirstIdle] =
                              [Idle EXCEPT !.pc = "token", !.posts = 1,
                                 !.state = q.state.v,
                                 !.params = TokenParams(q.code.v,
                                              read["airtable_code_verifier"].v)]]
               /\ last' = [seen EXCEPT !.posts = 1, !.slot = FirstIdle]
               /\ UNCHANGED <<now, logins, jar, users, lastExch>>

\* A catch block that sends the browser on to the dashboard with whatever
\* token the handler holds.
Fail_Redirect(r) ==
  /\ slots' = [slots EXCEPT ![r] = [Idle EXCEPT !.pc = "done", !.status = 500]]
  /\ last' = [None EXCEPT !.kind = "finished", !.slot = r, !.status = 302,
                          !.posts = slots[r].posts, !.gets = slots[r].gets,
                          !.grant = slots[r].grant,
                          !.airtableId = slots[r].airtableId, !.doc = slots[r].doc,
                          !.location = [url |-> ClientUrl \o "/dashboard",
                                        token |-> slots[r].grant.access_token,
                                        userId |-> 0]]
  /\ UNCHANGED <<now, logins, jar, users, consumed, lastExch>>

\* A catch block that sends the token request once more before giving up.
Fail_Retry(r) ==
  IF slots[r].pc = "token" /\ slots[r].posts < 2
  THEN /\ slots' = [slots EXCEPT ![r].posts = @ + 1]
       /\ UNCHANGED <<now, logins, jar, users, last, consumed, lastExch>>
  ELSE /\ slots' = [slots EXCEPT ![r] = [Idle EXCEPT !.pc = "done", !.status = 500]]
       /\ last' = [None EXCEPT !.kind = "finished", !.slot = r, !.status = 500,
                               !.body = Str("Authentication failed"),
                               !.posts = slots[r].posts, !.gets = slots[r].gets,
                               !.grant = slots[r].grant,
                               !.airtableId = slots[r].airtableId,
                               !.doc = slots[r].doc]
       /\ UNCHANGED <<now, logins, jar, users, consumed, lastExch>>

\* The catch block: 500 and nothing else.  The request's locals are gone.
Fail(r) ==
  /\ slots' = [slots EXCEPT ![r] = [Idle EXCEPT !.pc = "done", !.status = 500]]
  /\ last' = [None EXCEPT !.kind = "finished", !.slot = r, !.status = 500,
                          !.body = Str("Authentication failed"),
                          !.posts = slots[r].posts, !.gets = slots[r].gets,
                          !.grant = slots[r].grant,
                          !.airtableId = slots[r].airtableId, !.doc = slots[r].doc]
  /\ UNCHANGED <<now, logins, jar, users, consumed, lastExch>>

\* Lines 87-98: the token endpoint answers; on success the identity GET is issued.
TokenResponse(r) ==
  /\ last = None
  /\ slots[r].pc = "token"
  /\ \/ Fail(r)
     \/ \E g \in Grants :
          /\ slots' = [slots EXCEPT ![r] = [@ EXCEPT !.pc = "whoami", !.grant = g,
                                                    !.params = NoParams,
                                                    !.gets = @ + 1]]
          /\ lastExch' = r
          /\ UNCHANGED <<now, logins, jar, users, last, consumed>>

\* UpdateDoc with expires_in taken for milliseconds.
UpdateDoc_Millis(airtableId, g, t) ==
  [airtableId |-> airtableId, accessToken |-> g.access_token,
   refreshToken |-> g.refresh_token, tokenExpiresAt |-> t + g.expires_in,
   lastLogin |-> t]

\* The update document of lines 104-110, built when findOneAndUpdate is called.
UpdateDoc(airtableId, g, t) ==
  [airtableId |-> airtableId, accessToken |-> g.access_token,
   refreshToken |-> g.refresh_token, tokenExpiresAt |-> t + g.expires_in * 1000,
   lastLogin |-> t]

\* Lines 96-112: the identity endpoint answers; on success the upsert is issued.
WhoamiResponse(r) ==
  /\ last = None
  /\ slots[r].pc = "whoami"
  /\ \/ Fail(r)
     \/ \E id \in ProviderIds :
          /\ slots' = [slots EXCEPT ![r] = [@ EXCEPT !.pc = "upsert",
                                       !.airtableId = id,
                                       !.doc = UpdateDoc(id, slots[r].grant, now)]]
          /\ UNCHANGED <<now, logins, jar, users, last, consumed, lastExch>>

\* ------------------------------------------------------- User collection
Matching(us, airtableId) == {i \in 1..Len(us) : us[i].airtableId = airtableId}
First(S) == CHOOSE i \in S : \A j \in S : i <= j

\* A find that misses followed by a create: what two upserts that are not
\* atomic do when both look before either writes.
FindOneAndUpdate_Create(us, airtableId, d) ==
  Append(us, [_id |-> Len(us) + 1, airtableId |-> d.airtableId,
              accessToken |-> d.accessToken, refreshToken |-> d.refreshToken,
              tokenExpiresAt |-> d.tokenExpiresAt, lastLogin |-> d.lastLogin])

\* findOneAndUpdate(filter, update, {upsert: true, new: true}): one atomic
\* step of the database on one document.
FindOneAndUpdate(us, airtableId, d) ==
  IF Matching(us, airtableId) # {}
  THEN [us EXCEPT ![First(Matching(us, airtableId))] =
          [@ EXCEPT !.airtableId = d.airtableId, !.accessToken = d.accessToken,
                    !.refreshToken = d.refreshToken,
                    !.tokenExpiresAt = d.tokenExpiresAt, !.lastLogin = d.lastLogin]]
  ELSE Append(us, [_id |-> Len(us) + 1, airtableId |-> d.airtableId,
                   accessToken |-> d.accessToken, refreshToken |-> d.refreshToken,
                   tokenExpiresAt |-> d.tokenExpiresAt, lastLogin |-> d.lastLogin])

\* {new: true}: the document as it is after the update.
Returned(us, airtableId) == us[First(Matching(us, airtableId))]

\* Only the verifier cookie is cleared.
ClearCookies_VerifierOnly(j) == [j EXCEPT !["airtable_code_verifier"] = NoCookie]
\* Lines 114-115: res.clearCookie on both names; the browser drops them.
ClearCookies(j) == [k \in CookieNames |-> NoCookie]

Redirect(access_token, user) ==
  [url |-> ClientUrl \o "/dashboard", token |-> access_token, userId |-> user._id]

\* UpsertDone with the upsert and the redirect not waiting for the identity
\* endpoint's answer.
UpsertDone_NoAwait(r) ==
  /\ last = None
  /\ slots[r].pc \in {"whoami", "upsert"}
  /\ LET us == FindOneAndUpdate(users, slots[r].airtableId, slots[r].doc)
         user == Returned(us, slots[r].airtableId)
     IN /\ users' = us
        /\ slots' = [slots EXCEPT ![r] =
                       [Idle EXCEPT !.pc = "done", !.status = 302,
                                    !.state = slots[r].state,
                                    !.grant = slots[r].grant,
                                    !.airtableId = slots[r].airtableId]]
        /\ jar' = ClearCookies(jar)
        /\ last' = [None EXCEPT !.kind = "finished", !.slot = r, !.status = 302,
                      !.posts = slots[r].posts, !.gets = slots[r].gets,
                      !.grant = slots[r].grant,
                      !.airtableId = slots[r].airtableId, !.doc = slots[r].doc,
                      !.user = user, !.cleared = CookieNames,
                      !.location = Redirect(slots[r].grant.access_token, user)]
        /\ UNCHANGED <<now, logins, consumed, lastExch>>

\* Lines 102-120: the database applies the upsert and the handler goes on to
\* clear both cookies and redirect; the browser applies the response.
UpsertDone(r) ==
  /\ last = None
  /\ slots[r].pc = "upsert"
  /\ \/ Fail(r)
     \/ LET us == FindOneAndUpdate(users, slots[r].airtableId, slots[r].doc)
            user == Returned(us, slots[r].airtableId)
        IN /\ users' = us
           /\ slots' = [slots EXCEPT ![r] =
                          [Idle EXCEPT !.pc = "done", !.status = 302,
                                       !.state = slots[r].state,
                                       !.grant = slots[r].grant,
                                       !.airtableId = slots[r].airtableId]]
           /\ jar' = ClearCookies(jar)
           /\ last' = [None EXCEPT !.kind = "finished", !.slot = r, !.status = 302,
                         !.posts = slots[r].posts, !.gets = slots[r].gets,
                         !.grant = slots[r].grant,
                         !.airtableId = slots[r].airtableId, !.doc = slots[r].doc,
                         !.user = user, !.cleared = CookieNames,
                         !.location = Redirect(slots[r].grant.access_token, user)]
           /\ UNCHANGED <<now, logins, consumed, lastExch>>

\* --------------------------------------------------------------- browser
\* Time passes; the browser drops the cookies whose maxAge has run out.
Tick ==
  /\ last = None
  /\ now < MaxTicks * MaxAge
  /\ now' = now + MaxAge
  /\ jar' = [k \in CookieNames |-> IF now' < jar[k].expires THEN jar[k] ELSE NoCookie]
  /\ UNCHANGED <<logins, slots, users, last, consumed, lastExch>>

\* The browser loses one cookie (the user deletes it, the jar evicts it).
DropCookie(k) ==
  /\ last = None
  /\ jar[k] # NoCookie
  /\ jar' = [jar EXCEPT ![k] = NoCookie]
  /\ UNCHANGED <<now, logins, slots, users, last, consumed, lastExch>>

\* The exchange served by the last step has left the event loop.
EndRequest ==
  /\ last # None
  /\ last' = None
  /\ UNCHANGED <<now, logins, jar, slots, users, consumed, lastExch>>

Next ==
  \/ Login
  \/ \E q \in Queries : Callback(q)
  \/ \E r \in Req : TokenResponse(r)
  \/ \E r \in Req : WhoamiResponse(r)
  \/ \E r \in Req : UpsertDone(r)
  \/ Tick
  \/ \E k \in CookieNames : DropCookie(k)
  \/ EndRequest

Spec == Init /\ [][Next]_vars

\* The provider's answers are not in the program's hands: nothing obliges
\* them to arrive (axios is called with no timeout).  The program's own steps
\* and the database's are taken when they can be.
FairSpec ==
  /\ Spec
  /\ WF_vars(EndRequest)
  /\ \A r \in Req : WF_vars(UpsertDone(r))

\* ================================================================ claims
SavedState == ReqCookies["airtable_oauth_state"]
SavedVerifier == ReqCookies["airtable_code_verifier"]

\* The step serves a callback request.
ServesCallback == last'.kind = "callback"

\* The request makes no call to the provider and starts no handler.
NoOutbound == last'.posts = 0 /\ last'.gets = 0 /\ last'.slot = 0 /\ slots' = slots

\* C1: a callback without an error parameter whose state is absent or differs
\* from the stored state (none stored included) is answered 403 State mismatch,
\* calls neither provider endpoint and writes no identity record.
C1_StateMismatchRejected ==
  [][ (/\ ServesCallback
       /\ ~Truthy(last'.query.error)
       /\ (last'.query.state = Undefined \/ last'.query.state # SavedState))
      => (/\ last'.status = 403
          /\ last'.body = Str("Security Error: State mismatch")
          /\ NoOutbound
          /\ users' = users) ]_vars

C1_Witness ==
  /\ last.kind = "callback"
  /\ last.query.error = Undefined
  /\ Truthy(SavedState) /\ Truthy(last.query.state) /\ last.query.state # SavedState
  /\ TypeofString(last.query.code) /\ Truthy(SavedVerifier)
  /\ last.status = 403

\* No other handler is suspended at an await.
OthersQuiet == \A r \in Req \ {last.slot} : slots[r].pc \in {"idle", "done"}

\* C2: once a callback carrying the stored state has reached the state check,
\* a later callback carrying that state (no other callback still running) is
\* rejected and does not reach the token exchange.
C2_PendingAuthorizationSingleUse ==
  (/\ last.kind = "callback"
   /\ last.replay
   /\ Truthy(last.query.state) /\ last.query.state = SavedState
   /\ OthersQuiet)
  => (last.posts = 0 /\ last.slot = 0 /\ last.status \in {400, 403})

\* C3: of the callbacks that overlap while holding the same pending
\* authorization, at most one has the token POST in flight.
C3_OneExchangePerPendingAuthorization ==
  \A r1, r2 \in Req :
    (r1 # r2 /\ slots[r1].pc = "token" /\ slots[r2].pc = "token")
    => slots[r1].params.code_verifier # slots[r2].params.code_verifier

\* The answer to a callback the provider has denied.
DeniedAnswer ==
  /\ last'.status = 400
  /\ last'.body = OrElse(last'.query.error_description, Str("Authorization failed"))
  /\ Truthy(last'.body)
  /\ last'.cookies = NoCookies
  /\ last'.cleared = {}
  /\ jar' = jar
  /\ NoOutbound
  /\ users' = users

\* C4 as claimed: every callback that carries an error parameter, even an empty
\* one, is answered 400 with no store entry read or cleared, no outbound call
\* and no change of the identity store.
C4_AnyErrorParameterDenied ==
  [][ (ServesCallback /\ last'.query.error # Undefined) => DeniedAnswer ]_vars

\* C4 amended: every callback that carries a non-empty error parameter is
\* answered 400 with an error body; no store entry is read or cleared, no
\* outbound call is made and the identity store is unchanged.
C4_NonEmptyErrorDenied ==
  [][ (ServesCallback /\ Truthy(last'.query.error)) => DeniedAnswer ]_vars

C4_Witness ==
  /\ last.kind = "callback"
  /\ last.query.error = Str("access_denied")
  /\ Truthy(SavedState) /\ Truthy(SavedVerifier)
  /\ last.query.state = SavedState /\ TypeofString(last.query.code)
  /\ last.status = 400

\* The case of C5: no error, a string code, the stored state, no verifier.
VerifierMissing ==
  /\ last.kind = "callback"
  /\ ~Truthy(last.query.error)
  /\ TypeofString(last.query.code)
  /\ SavedState # Undefined /\ last.query.state = SavedState
  /\ SavedVerifier = Undefined

\* C5: a callback with no error, a string code and the stored state, whose
\* verifier cookie is absent, is answered 400 Missing code verifier and no
\* token exchange is attempted.
C5_MissingVerifierRejected ==
  VerifierMissing
  => (/\ last.status = 400
      /\ last.body = Str("Security Error: Missing code verifier")
      /\ last.posts = 0 /\ last.gets = 0 /\ last.slot = 0)

C5_Witness == VerifierMissing /\ last.status = 400 /\ logins > 0

\* The four validations, stated on the request and the browser's store.
AllValid(q) ==
  /\ ~Truthy(q.error)
  /\ Truthy(q.state) /\ q.state = SavedState
  /\ Truthy(SavedVerifier)
  /\ TypeofString(q.code)

\* C6: a handler issues the token POST only in the step that serves a callback
\* passing all four validations; a callback failing one is answered 400 or 403
\* and issues no outbound request.
C6_PostOnlyAfterValidation ==
  [][ /\ \A r \in Req :
           (slots[r].posts = 0 /\ slots'[r].posts > 0)
           => (ServesCallback /\ last'.slot = r /\ AllValid(last'.query))
      /\ (ServesCallback /\ ~AllValid(last'.query))
           => (NoOutbound /\ last'.status \in {400, 403}) ]_vars

C6_Witness ==
  /\ last.kind = "callback" /\ last.posts = 1 /\ last.slot \in Req
  /\ slots[last.slot].pc = "token"
  /\ slots[last.slot].params.code = "abc"

\* The callbacks that have completed with the redirect for an identity.
Completed(id) == {r \in Req : slots[r].pc = "done" /\ slots[r].status = 302
                              /\ slots[r].airtableId = id}

\* The record holds the token pair and the expiry of the one grant g.
FromGrant(u, g) ==
  /\ u.accessToken = g.access_token
  /\ u.refreshToken = g.refresh_token
  /\ u.tokenExpiresAt = u.lastLogin + g.expires_in * 1000

\* C7: there is never more than one record per providerId; once callbacks for
\* an identity have completed there is exactly one record for it, and its
\* accessToken, refreshToken and tokenExpiresAt come from one and the same
\* grant among those of the completed callbacks.
C7_OneRecordFromOneGrant ==
  /\ \A i, j \in 1..Len(users) : users[i].airtableId = users[j].airtableId => i = j
  /\ \A id \in ProviderIds :
       Completed(id) # {}
       => /\ Cardinality(Matching(users, id)) = 1
          /\ \E r \in Completed(id) : FromGrant(users[First(Matching(users, id))],
                                                slots[r].grant)

C7_Witness ==
  \E r1, r2 \in Req, id \in ProviderIds :
    /\ r1 # r2 /\ {r1, r2} \subseteq Completed(id)
    /\ slots[r1].grant # slots[r2].grant
    /\ Cardinality(Matching(users, id)) = 1

\* C8: when two callbacks for one identity have both completed, the stored
\* token pair is the one of the token exchange that completed last.
C8_LatestExchangeStored ==
  \A id \in ProviderIds : \A r1, r2 \in Completed(id) :
    (r1 # r2 /\ lastExch \in {r1, r2} /\ Matching(users, id) # {})
    => LET u == users[First(Matching(users, id))]
       IN /\ u.accessToken = slots[lastExch].grant.access_token
          /\ u.refreshToken = slots[lastExch].grant.refresh_token

\* The step issues the upsert of handler r.
IssuesUpsert(r) == slots[r].pc = "whoami" /\ slots'[r].pc = "upsert"
\* The step completes a callback with the redirect.
Completes == last'.kind = "finished" /\ last'.status = 302

\* C9: the handler that got grant (AT, RT, E) and id P issues its upsert with
\* tokenExpiresAt = Date.now() + E seconds, and completes with the stored
\* record of providerId P, accessToken AT, refreshToken RT and that expiry,
\* redirecting to {ClientUrl}/dashboard with token=AT and userId = its _id.
C9_EndToEnd ==
  [][ /\ \A r \in Req :
           IssuesUpsert(r)
           => /\ slots'[r].doc.tokenExpiresAt = now + slots[r].grant.expires_in * 1000
              /\ slots'[r].doc.lastLogin = now
              /\ slots'[r].airtableId \in ProviderIds
      /\ Completes
           => LET u == last'.user
                  g == last'.grant
              IN /\ \E i \in 1..Len(users') : users'[i] = u
                 /\ u.airtableId = last'.airtableId
                 /\ u.accessToken = g.access_token
                 /\ u.refreshToken = g.refresh_token
                 /\ u.tokenExpiresAt = last'.doc.lastLogin + g.expires_in * 1000
                 /\ u.lastLogin = last'.doc.lastLogin
                 /\ slots[last'.slot].grant = g
                 /\ slots[last'.slot].airtableId = last'.airtableId
                 /\ last'.location = [url |-> "http://localhost:5173/dashboard",
                                      token |-> g.access_token, userId |-> u._id]
                 /\ u._id > 0 ]_vars

C9_Witness ==
  /\ last.kind = "finished" /\ last.status = 302
  /\ last.airtableId = "prov-42"
  /\ last.grant.access_token = "AT1"
  /\ last.user.tokenExpiresAt = MaxAge + 3600 * 1000
  /\ last.location.token = "AT1" /\ last.location.userId = 2

\* C10: every callback that has called the provider is eventually answered.
C10_EveryCallbackAnswered ==
  \A r \in Req : (slots[r].pc \in {"token", "whoami"}) ~> (slots[r].pc = "done")

\* The step serves a login request.
ServesLogin == last'.kind = "login"

\* C11: both entries are stored with a TTL of 5 minutes, and a callback that
\* arrives when the state entry's TTL has run out (or none is stored) is
\* answered as if nothing had been stored: rejected (403, or 400 for a provider
\* error) with no token exchange, the originally issued state included.
C11_ExpiredPendingAuthorizationRejected ==
  [][ /\ ServesLogin
           => \A k \in CookieNames : jar'[k].expires = now + 5 * 60 * 1000
      /\ (ServesCallback /\ now >= jar["airtable_oauth_state"].expires)
           => (/\ last'.status = (IF Truthy(last'.query.error) THEN 400 ELSE 403)
               /\ last'.cookies["airtable_oauth_state"] = Undefined
               /\ NoOutbound
               /\ users' = users) ]_vars

C11_Witness ==
  /\ last.kind = "callback" /\ ~last.replay
  /\ logins = 1 /\ now >= 5 * 60 * 1000
  /\ last.query.state = Str("s1") /\ last.query.code = Str("abc")
  /\ last.query.error = Undefined
  /\ jar = [k \in CookieNames |-> NoCookie]
  /\ last.status = 403 /\ last.posts = 0
  /\ \A r \in Req : slots[r].pc = "idle"

\* The answer of the validations to query q under the request cookies c.
Answer(q, c) ==
  LET v == Validate(q, c["airtable_oauth_state"], c["airtable_code_verifier"])
  IN IF v = "ok" THEN [status |-> 0, body |-> Undefined]
     ELSE [status |-> RejectStatus(v), body |-> RejectBody(v, q)]

\* C12: the status and body a callback whose state does not match gets,
\* whatever the store holds in this run, are those the same request gets in
\* the run where nothing is stored.
C12_StateMismatchIndistinguishable ==
  (/\ last.kind = "callback"
   /\ (~Truthy(last.query.state) \/ ~StrictEq(last.query.state, SavedState)))
  => [status |-> last.status, body |-> last.body] = Answer(last.query, NoCookies)

C12_Witness ==
  /\ last.kind = "callback" /\ last.status = 403
  /\ last.body = Str("Security Error: State mismatch")
  /\ last.query.state = Str("s2") /\ last.query.code = Str("abc")
  /\ SavedState = Str("s1") /\ SavedVerifier = Str("v1")
  /\ Answer(last.query, NoCookies).status = 403

Stage(pc) ==
  CASE pc = "idle" -> 0 [] pc = "token" -> 1 [] pc = "whoami" -> 2
    [] pc = "upsert" -> 3 [] OTHER -> 4

\* C13: a handler moves one stage at a time (token exchange, identity
\* resolution, upsert, redirect) or leaves with an error; the identity GET is
\* issued only on the token endpoint's success, the upsert only on the identity
\* endpoint's success, the 302 and the write to the collection only when the
\* upsert returns; each provider endpoint is called at most once and a
\* finished handler does nothing more.
C13_StagesInOrder ==
  [][ /\ \A r \in Req :
           /\ slots'[r].pc # slots[r].pc
                => \/ Stage(slots'[r].pc) = Stage(slots[r].pc) + 1
                   \/ slots[r].pc # "idle" /\ slots'[r].pc = "done"
                                          /\ slots'[r].status = 500
           /\ slots[r].pc = "done" => slots'[r] = slots[r]
           /\ slots'[r].gets > slots[r].gets
                => /\ slots[r].pc = "token" /\ slots'[r].pc = "whoami"
                   /\ slots'[r].grant \in Grants /\ slots'[r].gets = 1
           /\ (slots[r].doc = NoDoc /\ slots'[r].doc # NoDoc)
                => /\ slots[r].pc = "whoami" /\ slots'[r].pc = "upsert"
                   /\ slots'[r].airtableId \in ProviderIds
           /\ (slots'[r].status = 302 /\ slots[r].status # 302)
                => /\ slots[r].pc = "upsert" /\ last'.status = 302
                   /\ last'.posts = 1 /\ last'.gets = 1
                   /\ \E i \in 1..Len(users') : users'[i] = last'.user
           /\ slots'[r].posts <= 1 /\ slots'[r].gets <= 1
      /\ users' # users
           => \E r \in Req : slots[r].pc = "upsert" /\ slots'[r].status = 302
      /\ last'.status = 302 /\ last'.kind = "finished"
           => slots[last'.slot].pc = "upsert" ]_vars

C13_Witness ==
  /\ last.kind = "finished" /\ last.status = 302
  /\ last.posts = 1 /\ last.gets = 1
  /\ last.doc # NoDoc /\ last.user.airtableId = last.airtableId
  /\ slots[last.slot].pc = "done"
  /\ \E r \in Req \ {last.slot} : slots[r].status = 500

\* The step ends handler r at the token exchange or at the identity resolution.
ProviderFails(r) == slots[r].pc \in {"token", "whoami"} /\ slots'[r].pc = "done"

\* C14: when the token exchange or the identity resolution fails, the callback
\* is answered 500 "Authentication failed", the collection is unchanged, and
\* the response carries no redirect, no token and clears no cookie.
C14_ProviderFailureAnswered500 ==
  [][ \A r \in Req :
        ProviderFails(r)
        => /\ last'.kind = "finished" /\ last'.slot = r
           /\ last'.status = 500 /\ last'.body = Str("Authentication failed")
           /\ slots'[r].status = 500
           /\ users' = users
           /\ last'.location = NoLocation /\ last'.user = NoUser
           /\ last'.cleared = {} /\ jar' = jar ]_vars

C14_Witness ==
  /\ last.kind = "finished" /\ last.status = 500
  /\ last.gets = 1 /\ last.grant.access_token = "AT2" /\ last.airtableId = ""
  /\ Len(users) = 1 /\ users[1].accessToken = "AT1"
  /\ jar["airtable_oauth_state"] # NoCookie

\* C15: the step that completes a callback clears both entries, and from then
\* on a callback carrying the state of a completed callback (and no provider
\* error) is answered 403 with no outbound call.
C15_ReplayAfterCompletionRejected ==
  [][ /\ Completes
           => /\ jar' = [k \in CookieNames |-> NoCookie]
              /\ last'.cleared = {"airtable_oauth_state", "airtable_code_verifier"}
      /\ (/\ ServesCallback
          /\ ~Truthy(last'.query.error)
          /\ \E r \in Req : /\ slots[r].pc = "done" /\ slots[r].status = 302
                             /\ last'.query.state = Str(slots[r].state))
           => (/\ last'.status = 403
               /\ last'.body = Str("Security Error: State mismatch")
               /\ NoOutbound
               /\ users' = users) ]_vars

C15_Witness ==
  /\ last.kind = "callback" /\ last.status = 403
  /\ last.query.code = Str("abc") /\ last.query.error = Undefined
  /\ \E r \in Req : /\ slots[r].pc = "done" /\ slots[r].status = 302
                     /\ last.query.state = Str(slots[r].state)
  /\ now = 0 /\ logins = 1

\* C16: a handler calls the token endpoint once, when it starts, and the
\* identity endpoint at most once, on the token endpoint's success; a provider
\* answer either moves the handler on or ends it, and a failure ends it with
\* the calls it had made and the 500, with no further call.
C16_NoAutomaticRetry ==
  [][ \A r \in Req :
        /\ slots'[r].posts <= 1 /\ slots'[r].gets <= 1
        /\ slots'[r].posts > slots[r].posts
             => (ServesCallback /\ last'.slot = r /\ slots[r].pc = "idle")
        /\ slots'[r].gets > slots[r].gets
             => (slots[r].pc = "token" /\ slots[r].gets = 0)
        /\ slots'[r].pc = slots[r].pc => slots'[r] = slots[r]
        /\ ProviderFails(r)
             => /\ last'.posts = slots[r].posts /\ last'.gets = slots[r].gets
                /\ last'.status = 500
                /\ slots'[r].posts = 0 /\ slots'[r].gets = 0
        /\ slots[r].pc = "done" => slots'[r].pc = "done" ]_vars

C16_Witness ==
  /\ last.kind = "finished" /\ last.status = 500
  /\ last.posts = 1 /\ last.gets = 0 /\ last.grant = NoGrant
  /\ slots[last.slot].pc = "done"
  /\ \E r \in Req : slots[r].pc = "idle"

\* The answer the checks after the provider-error check give to a callback.
AfterErrorCheck ==
  LET q == last'.query
  IN IF q.state \in {Undefined, Str("")} \/ q.state # SavedState
     THEN /\ last'.status = 403
          /\ last'.body = Str("Security Error: State mismatch")
     ELSE IF SavedVerifier \in {Undefined, Str("")}
     THEN /\ last'.status = 400
          /\ last'.body = Str("Security Error: Missing code verifier")
     ELSE IF q.code.t # "string"
     THEN /\ last'.status = 400
          /\ last'.body = Str("Invalid authorization code")
     ELSE last'.status = 0 /\ last'.posts = 1 /\ last'.slot \in Req

\* C17 as claimed: the answer to a callback is fixed by the first check that
\* fails, in the order provider error (400), state (403), verifier (400), code
\* (400), where every callback with the error parameter set, an empty one
\* included, is answered 400 whatever its state.
C17_ErrorSetAnsweredFirst ==
  [][ ServesCallback
      => IF last'.query.error # Undefined
         THEN last'.status = 400
         ELSE AfterErrorCheck ]_vars

\* C17 amended: the answer to a callback is fixed by the first check that
\* fails, in the order non-empty provider error (400), state (403), verifier
\* (400), code (400); a callback that fails none starts the token exchange.
C17_ValidationPriority ==
  [][ ServesCallback
      => LET q == last'.query
         IN IF q.error.t = "object" \/ (q.error.t = "string" /\ q.error.v # "")
            THEN /\ last'.status = 400
                 /\ last'.body \in {q.error_description, Str("Authorization failed")}
            ELSE AfterErrorCheck ]_vars

C17_Witness ==
  /\ last.kind = "callback" /\ last.status = 403
  /\ last.query.error = Undefined
  /\ SavedState = Str("s1") /\ last.query.state = Str("s2")
  /\ SavedVerifier = Undefined /\ last.query.code = Undefined

\* C18: the response to GET /auth/login is a 302 to the provider whose state
\* is the stored state entry and whose code_challenge is the S256 challenge of
\* the stored verifier (never the verifier itself); both entries are stored by
\* that response with a TTL of 5 minutes; the collection and the handlers are
\* unchanged.
C18_LoginBindsRedirectToStore ==
  [][ ServesLogin
      => LET u == last'.authUrl
             st == jar'["airtable_oauth_state"]
             ver == jar'["airtable_code_verifier"]
         IN /\ last'.status = 302
            /\ st.value.t = "string" /\ st.value.v # ""
            /\ ver.value.t = "string" /\ ver.value.v # ""
            /\ u.state = st.value.v
            /\ u.code_challenge = "b64url(sha256(" \o ver.value.v \o "))"
            /\ u.code_challenge # ver.value.v
            /\ u.code_challenge_method = "S256"
            /\ u.url = "https://airtable.com/oauth2/v1/authorize"
            /\ u.response_type = "code"
            /\ u.scope = SCOPES
            /\ st.expires = now + 5 * 60 * 1000
            /\ ver.expires = now + 5 * 60 * 1000
            /\ last'.setCookie = [k \in CookieNames |-> jar'[k].value]
            /\ users' = users
            /\ slots' = slots ]_vars

C18_Witness ==
  /\ last.kind = "login" /\ logins = 2
  /\ last.authUrl.state = "s2"
  /\ last.authUrl.code_challenge = "b64url(sha256(v2))"
  /\ jar["airtable_oauth_state"].value = Str("s2")
  /\ jar["airtable_code_verifier"].value = Str("v2")
  /\ Len(users) = 1

\* The state tokens a callback with a string code and no error would pass with.
Accepted ==
  {s \in StateTokens :
     Validate([NoQuery EXCEPT !.code = Str("abc"), !.state = Str(s)],
              SavedState, SavedVerifier) = "ok"}

\* C19: at most one state value is accepted at any time; a login stores the
\* state it has just issued over the one before; a callback carrying the state
\* of an earlier login than the latest is answered 403 with no outbound call; a
\* callback carrying the stored state of the latest login, with the verifier
\* and a string code, starts the token exchange.
C19_SecondLoginOverwrites ==
  [][ /\ Cardinality(Accepted) <= 1
      /\ ServesLogin
           => /\ jar'["airtable_oauth_state"].value = Str("s" \o ToString(logins'))
              /\ jar'["airtable_oauth_state"] # jar["airtable_oauth_state"]
      /\ (/\ ServesCallback
          /\ ~Truthy(last'.query.error)
          /\ \E n \in 1..MaxLogins :
               n < logins /\ last'.query.state = Str("s" \o ToString(n)))
           => (last'.status = 403 /\ NoOutbound /\ users' = users)
      /\ (/\ ServesCallback
          /\ ~Truthy(last'.query.error)
          /\ logins >= 1
          /\ last'.query.state = Str("s" \o ToString(logins))
          /\ SavedState = last'.query.state
          /\ Truthy(SavedVerifier)
          /\ TypeofString(last'.query.code))
           => (last'.posts = 1 /\ last'.slot \in Req) ]_vars

C19_Witness ==
  /\ logins = 2
  /\ last.kind = "callback" /\ last.status = 403
  /\ last.query.state = Str("s1") /\ last.query.code = Str("abc")
  /\ last.query.error = Undefined
  /\ SavedState = Str("s2") /\ SavedVerifier = Str("v2")
  /\ \E r \in Req : slots[r].pc = "token" /\ slots[r].state = "s2"

====
